---------------------------- MODULE Spec2Model ----------------------------
(***************************************************************************)
(* Model of azure_utils/machine_learning/datasets/stack_overflow_data.py.  *)
(*                                                                         *)
(* Four specifications share the module:                                   *)
(*   SpecClean  download_datasets and clean_data on bounded raw tables;    *)
(*   SpecSplit  split_duplicates on bounded cleaned tables;                *)
(*   Spec       create_stack_overflow_data invocations against one output  *)
(*              directory, interleaved;                                    *)
(*   SpecSeq    the same invocations, one after the other.                 *)
(*                                                                         *)
(* A table is a sequence of rows (records); the row key of a raw table is  *)
(* the field Id.  CreationDate is carried by the code but never read, and  *)
(* is left out of the rows.                                                *)
(***************************************************************************)
EXTENDS Integers, Sequences, FiniteSets

VARIABLES
    \* ---- the data pipeline (SpecClean, SpecSplit)
    stage,                \* position of the run in the pipeline
    remote,               \* the three tables behind the fixed URLs
    show_output, min_text, min_dupes, match,     \* entry point parameters
    questions, answers, dupes,                   \* the tables of the run
    dupes_test, dupes_train,
    balanced_pairs_train, balanced_pairs_test,
    \* ---- the output directory and the invocations (Spec, SpecSeq)
    fs,                   \* file name -> state of the file
    pc,                   \* invocation -> position in create_stack_overflow_data
    loaded,               \* invocation -> table read from questions.tsv
    ret,                  \* invocation -> value returned
    fetches               \* invocation -> number of download_datasets calls

dataVars == <<stage, remote, show_output, min_text, min_dupes, match, questions,
              answers, dupes, dupes_test, dupes_train, balanced_pairs_train,
              balanced_pairs_test>>
fsVars == <<fs, pc, loaded, ret, fetches>>
vars == <<dataVars, fsVars>>

-----------------------------------------------------------------------------
(* Bounds *)

MaxRows == 5          \* rows fetched, over the three raw tables together
MaxMinText == 2       \* largest min_text tried
MaxMinDupes == 2      \* largest min_dupes tried
MaxDupes == 3         \* rows of a cleaned dupes table handed to split_duplicates
MaxMatch == 2         \* largest match tried
MaxInvocations == 2   \* calls of create_stack_overflow_data on one directory

-----------------------------------------------------------------------------
(* Generic table helpers *)

Range(s) == {s[i] : i \in 1..Len(s)}

\* boolean-mask indexing df[mask]: the rows at the positions in keep, in order
Mask(s, keep) ==
    LET F[i \in 0..Len(s)] ==
            IF i = 0 THEN <<>>
            ELSE IF i \in keep THEN Append(F[i-1], s[i]) ELSE F[i-1]
    IN F[Len(s)]

Ids(t) == {t[i].Id : i \in 1..Len(t)}
AnswerIds(t) == {t[i].AnswerId : i \in 1..Len(t)}

-----------------------------------------------------------------------------
(* Text: a raw text is a sequence of tokens, "<b>" a markup tag, the others *)
(* characters.                                                              *)

lower(c) == IF c = "A" THEN "a" ELSE c

\* clean_text(...).str.lower(): strip the markup, then lowercase
clean_text(t) ==
    LET F[i \in 0..Len(t)] ==
            IF i = 0 THEN <<>>
            ELSE IF t[i] = "<b>" THEN F[i-1] ELSE Append(F[i-1], lower(t[i]))
    IN F[Len(t)]


-----------------------------------------------------------------------------
(* download_datasets *)

\* The rows a fetched table is drawn from: repeated and colliding keys, both
\* labels, and texts that clean to length 0, 1 and 2.
Markup == <<"<b>">>
Short == <<"<b>", "A">>
Long == <<"A", "<b>", "b">>

RawRows ==
    { [Id |-> 1, AnswerId |-> 1, Text0 |-> Long],
      [Id |-> 1, AnswerId |-> 2, Text0 |-> Markup],
      [Id |-> 2, AnswerId |-> 2, Text0 |-> Short] }
RawDupeRows ==
    { [Id |-> 3, AnswerId |-> 1, Text0 |-> Long],
      [Id |-> 4, AnswerId |-> 2, Text0 |-> Long],
      [Id |-> 2, AnswerId |-> 1, Text0 |-> Short] }
RawAnswerRows ==
    { [Id |-> 1, Text0 |-> <<"A">>],
      [Id |-> 2, Text0 |-> <<"A">>] }

\* the diagnostic prints of download_datasets: questions.iloc[0, 1] needs a
\* first row, answers.at[questions.iloc[0, 0], 'Text0'] needs an answer keyed
\* by the first question's AnswerId
download_prints_raise(r) ==
    \/ Len(r.questions) = 0
    \/ r.questions[1].AnswerId \notin Ids(r.answers)

download_datasets(r, show) ==
    [ok |-> ~(show /\ download_prints_raise(r)),
     answers |-> r.answers, dupes |-> r.dupes, questions |-> r.questions]

-----------------------------------------------------------------------------
(* clean_data *)

\* df["Text"] = df.Text0.apply(clean_text).str.lower()
add_text(t) == [i \in 1..Len(t) |->
                  [f \in (DOMAIN t[i]) \cup {"Text"} |->
                      IF f = "Text" THEN clean_text(t[i].Text0) ELSE t[i][f]]]

\* df[df.Text.str.len() > 0]
nonempty_text(t) == Mask(t, {i \in 1..Len(t) : Len(t[i].Text) > 0})

\* dupes[~dupes.index.isin(questions.index)]
not_questions(d, q) == Mask(d, {i \in 1..Len(d) : d[i].Id \notin Ids(q)})

drop_duplicated_skipped(t) == t

\* df[~df.index.duplicated(keep='first')]
drop_duplicated(t) == Mask(t, {i \in 1..Len(t) : \A j \in 1..(i-1) : t[j].Id # t[i].Id})

\* questions[questions.AnswerId.isin(answers.index) & questions.AnswerId.isin(dupes.AnswerId)]
answered_and_duped(q, a, d) ==
    Mask(q, {i \in 1..Len(q) : q[i].AnswerId \in Ids(a) /\ q[i].AnswerId \in AnswerIds(d)})

\* answers[answers.index.isin(questions.AnswerId)]
answers_of(a, q) == Mask(a, {i \in 1..Len(a) : a[i].Id \in AnswerIds(q)})

label_isin_skipped(t, u) == t

\* t[t[label_column].isin(u[label_column])]
label_isin(t, u) == Mask(t, {i \in 1..Len(t) : t[i].AnswerId \in AnswerIds(u)})

verify_data_integrity(a, d, q) ==
    /\ AnswerIds(q) \subseteq Ids(a)
    /\ Ids(a) \subseteq AnswerIds(q)
    /\ AnswerIds(q) \subseteq AnswerIds(d)
    /\ AnswerIds(d) \subseteq AnswerIds(q)

\* df[df.Text.str.len() >= min_text]
long_text(t, mt) == Mask(t, {i \in 1..Len(t) : Len(t[i].Text) >= mt})

\* dupes.groupby(label_column)[label_column].count()
answerid_count(d) ==
    [l \in AnswerIds(d) |-> Cardinality({i \in 1..Len(d) : d[i].AnswerId = l})]

answerid_min_off_by_one(d, md) ==
    {l \in AnswerIds(d) : answerid_count(d)[l] >= md - 1}

\* answerid_count.index[answerid_count >= min_dupes]
answerid_min(d, md) == {l \in AnswerIds(d) : answerid_count(d)[l] >= md}

\* df[df[label_column].isin(answerid_min)]
label_in(t, S) == Mask(t, {i \in 1..Len(t) : t[i].AnswerId \in S})

\* lines 80-96: text, empty rows, key collisions, duplicated keys, closure
clean_keys(a, d, q, show) ==
    LET q1 == nonempty_text(add_text(q))
        a1 == nonempty_text(add_text(a))
        d1 == nonempty_text(add_text(d))
        d2 == not_questions(d1, q1)
        q2 == drop_duplicated(q1)
        d3 == drop_duplicated(d2)
        q3 == answered_and_duped(q2, a1, d3)
        a2 == answers_of(a1, q3)
        d4 == label_isin(d3, q3)
    IN [ok |-> /\ ~(show /\ Len(q1) = 0)      \* print(questions.iloc[0, 1])
               /\ verify_data_integrity(a2, d4, q3),
        answers |-> a2, dupes |-> d4, questions |-> q3]

\* lines 112-123: minimum text length, closure, minimum number of dupes
clean_restrict(d, md, mt, q) ==
    LET q1 == long_text(q, mt)
        d1 == long_text(d, mt)
        q2 == label_isin(q1, d1)
        d2 == label_isin(d1, q2)
        q3 == label_in(q2, answerid_min(d2, md))
        d3 == label_in(d2, answerid_min(d2, md))
    IN [dupes |-> d3, questions |-> q3]

\* lines 125-126
restricted_integrity(d, q) ==
    /\ AnswerIds(q) \subseteq AnswerIds(d)
    /\ AnswerIds(d) \subseteq AnswerIds(q)

-----------------------------------------------------------------------------
(* SpecClean: one run of download_datasets and clean_data *)

\* the value of a variable the specification at hand does not use
Unused == <<>>

InitClean ==
    /\ stage = "download"
    /\ \E i \in 0..MaxRows : \E j \in 0..(MaxRows - i) : \E k \in 0..(MaxRows - i - j) :
         remote \in [questions : [1..i -> RawRows],
                     dupes : [1..j -> RawDupeRows],
                     answers : [1..k -> RawAnswerRows]]
    /\ show_output \in BOOLEAN
    /\ min_text \in 0..MaxMinText
    /\ min_dupes \in 1..MaxMinDupes
    /\ match = 0
    /\ questions = <<>> /\ answers = <<>> /\ dupes = <<>>
    /\ dupes_test = <<>> /\ dupes_train = <<>>
    /\ balanced_pairs_train = <<>> /\ balanced_pairs_test = <<>>
    /\ fs = Unused /\ pc = Unused /\ loaded = Unused /\ ret = Unused /\ fetches = Unused

Download ==
    /\ stage = "download"
    /\ LET dl == download_datasets(remote, show_output) IN
         IF dl.ok
         THEN /\ stage' = "clean"
              /\ questions' = dl.questions
              /\ answers' = dl.answers
              /\ dupes' = dl.dupes
         ELSE /\ stage' = "failed"
              /\ UNCHANGED <<questions, answers, dupes>>
    /\ UNCHANGED <<remote, show_output, min_text, min_dupes, match, dupes_test,
                   dupes_train, balanced_pairs_train, balanced_pairs_test>>
    /\ UNCHANGED fsVars

\* clean_data up to the restricted tables (lines 80-123)
CleanFilter ==
    /\ stage = "clean"
    /\ LET c == clean_keys(answers, dupes, questions, show_output) IN
         IF c.ok
         THEN LET r == clean_restrict(c.dupes, min_dupes, min_text, c.questions) IN
              /\ stage' = "clean_assert"
              /\ questions' = r.questions
              /\ dupes' = r.dupes
              /\ answers' = c.answers
         ELSE /\ stage' = "failed"
              /\ UNCHANGED <<questions, answers, dupes>>
    /\ UNCHANGED <<remote, show_output, min_text, min_dupes, match, dupes_test,
                   dupes_train, balanced_pairs_train, balanced_pairs_test>>
    /\ UNCHANGED fsVars

\* the two assertions and the return of clean_data (lines 125-138)
CleanAssert ==
    /\ stage = "clean_assert"
    /\ stage' = IF restricted_integrity(dupes, questions) THEN "split" ELSE "failed"
    /\ UNCHANGED <<remote, show_output, min_text, min_dupes, match, questions,
                   answers, dupes, dupes_test, dupes_train, balanced_pairs_train,
                   balanced_pairs_test>>
    /\ UNCHANGED fsVars

NextClean == Download \/ CleanFilter \/ CleanAssert

SpecClean == InitClean /\ [][NextClean]_vars


\* create_stack_overflow_data, lines 33-36, as a function of what was fetched
clean_outcome(r, mt, md, show) ==
    LET failure == [status |-> "failed", questions |-> <<>>, dupes |-> <<>>]
        dl == download_datasets(r, show)
        c == clean_keys(dl.answers, dl.dupes, dl.questions, show)
        x == clean_restrict(c.dupes, md, mt, c.questions)
    IN IF ~dl.ok THEN failure
       ELSE IF ~c.ok THEN failure
       ELSE IF ~restricted_integrity(x.dupes, x.questions) THEN failure
       ELSE [status |-> "cleaned", questions |-> x.questions, dupes |-> x.dupes]

-----------------------------------------------------------------------------
(* Claims on clean_data, under SpecClean *)

\* the restricted tables have been computed (line 123 is behind the run)
Restricted == stage \in {"clean_assert", "split"}

UniqueIds(t) == \A i, j \in 1..Len(t) : t[i].Id = t[j].Id => i = j

\* row x of a cleaned table is the raw row y (the raw columns agree)
SameRow(x, y) == \A f \in DOMAIN y : x[f] = y[f]

\* every row of t is the first row of raw that carries its Id
FirstOccurrence(t, raw) ==
    \A i \in 1..Len(t) : \E k \in 1..Len(raw) :
        /\ raw[k].Id = t[i].Id
        /\ \A j \in 1..(k-1) : raw[j].Id # t[i].Id
        /\ SameRow(t[i], raw[k])

\* every row of t is the first row of raw that carries its Id and whose
\* cleaned text is not empty
FirstNonEmptyOccurrence(t, raw) ==
    \A i \in 1..Len(t) : \E k \in 1..Len(raw) :
        /\ raw[k].Id = t[i].Id
        /\ Len(clean_text(raw[k].Text0)) > 0
        /\ \A j \in 1..(k-1) :
              raw[j].Id = t[i].Id => Len(clean_text(raw[j].Text0)) = 0
        /\ SameRow(t[i], raw[k])

\* C2: once clean_data has restricted its tables, and so whenever it returns,
\* the AnswerId values of the questions are exactly the AnswerId values of the
\* dupes.
Thm_C2 == Restricted => AnswerIds(questions) = AnswerIds(dupes)

\* clean_data returned tables that are not empty after dropping a label that
\* was fetched with the dupes
Wit_C2 ==
    /\ stage = "split"
    /\ Len(questions) > 0
    /\ AnswerIds(dupes) # AnswerIds(remote.dupes)

\* C3: every AnswerId of the returned dupes occurs in at least min_dupes rows
\* of the returned dupes.
Thm_C3 ==
    Restricted =>
        \A i \in 1..Len(dupes) :
            Cardinality({j \in 1..Len(dupes) : dupes[j].AnswerId = dupes[i].AnswerId})
                >= min_dupes

\* clean_data returned dupes under a min_dupes of two or more
Wit_C3 == stage = "split" /\ min_dupes >= 2 /\ Len(dupes) >= 2

CX_C7 ==
    stage \in {"split", "failed"} =>
        clean_outcome(remote, min_text, min_dupes, ~show_output) =
            IF stage = "failed"
            THEN [status |-> "failed", questions |-> <<>>, dupes |-> <<>>]
            ELSE [status |-> "cleaned", questions |-> questions, dupes |-> dupes]


-----------------------------------------------------------------------------
(* split_duplicates *)

RECURSIVE Concat(_)
\* pd.concat: the tables of a sequence, one after the other
Concat(ts) == IF ts = <<>> THEN <<>> ELSE Head(ts) \o Concat(Tail(ts))

\* the sequences of k distinct elements of S
Arrangements(S, k) == {c \in [1..k -> S] : \A i, j \in 1..k : c[i] = c[j] => i = j}

\* round_sample_strat(dupes, dupes[label_column], frac=test_size): some rows
\* of the table, in their order (test_size bears only on which rows)
round_sample_strat(d) ==
    {Mask(d, S) : S \in SUBSET (1..Len(d))}

dupes_train_unfiltered(d, t) == d

\* dupes[~dupes.Id.isin(dupes_test.Id)]
dupes_train_of(d, t) == Mask(d, {i \in 1..Len(d) : d[i].Id \notin Ids(t)})

classes_asserted_nowhere(t, d) == TRUE

\* assert dupes_test[label_column].unique().shape[0] == dupes[label_column].unique().shape[0]
classes_asserted(t, d) == Cardinality(AnswerIds(t)) = Cardinality(AnswerIds(d))

\* one row of a merge of dupe x with question y
pair(x, y, k) ==
    [Id_x |-> x.Id, AnswerId_x |-> x.AnswerId, Text0_x |-> x.Text0, Text_x |-> x.Text,
     Id_y |-> y.Id, AnswerId_y |-> y.AnswerId, Text0_y |-> y.Text0, Text_y |-> y.Text,
     n |-> k]

\* random_merge(A, B, N): every row of A with its matching rows of B (n = 0),
\* then for every row of A, N-1 rows of B that do not match, as many as there
\* are, drawn in any order (n = 1, 2, ...)
random_merge(A, B, N) ==
    LET others(i) == {j \in 1..Len(B) : B[j].AnswerId # A[i].AnswerId}
        take(i) == IF N - 1 < Cardinality(others(i))
                   THEN N - 1 ELSE Cardinality(others(i))
        upto[i \in 0..Len(A)] ==
            IF i = 0 THEN {<<>>}
            ELSE {Append(c, a) : c \in upto[i-1], a \in Arrangements(others(i), take(i))}
        draws == upto[Len(A)]
        matches == Concat([i \in 1..Len(A) |->
                       Mask([j \in 1..Len(B) |-> pair(A[i], B[j], 0)],
                            {j \in 1..Len(B) : B[j].AnswerId = A[i].AnswerId})])
        sampled(c) == Concat([i \in 1..Len(A) |->
                         [k \in 1..Len(c[i]) |-> pair(A[i], B[c[i][k]], k)]])
    IN {matches \o sampled(c) : c \in draws}

\* t["Label"] = (t.AnswerId_x == t.AnswerId_y).astype(int)
with_label(t) ==
    [i \in 1..Len(t) |->
        [f \in (DOMAIN t[i]) \cup {"Label"} |->
            IF f = "Label"
            THEN (IF t[i].AnswerId_x = t[i].AnswerId_y THEN 1 ELSE 0)
            ELSE t[i][f]]]

balanced_pairs_columns ==
    {"Id_x", "AnswerId_x", "Text_x", "Id_y", "Text_y", "AnswerId_y", "Label", "n"}

\* t[balanced_pairs_columns]
relevant(t) == [i \in 1..Len(t) |-> [f \in balanced_pairs_columns |-> t[i][f]]]

\* the order of by=['Id_x', 'Label'], ascending=[True, True]
before_label_ascending(x, y) ==
    \/ x.Id_x < y.Id_x
    \/ x.Id_x = y.Id_x /\ x.Label < y.Label

\* the order of by=['Id_x', 'Label'], ascending=[True, False]
before(x, y) ==
    \/ x.Id_x < y.Id_x
    \/ x.Id_x = y.Id_x /\ x.Label > y.Label

\* t.sort_values(by=['Id_x', 'Label'], ascending=[True, False], inplace=True):
\* row i goes behind the rows that sort before it and the equal rows ahead of it
sort_values(t) ==
    LET rank(i) == Cardinality({j \in 1..Len(t) :
                       \/ before(t[j], t[i])
                       \/ ~before(t[i], t[j]) /\ j <= i})
    IN [k \in 1..Len(t) |-> t[CHOOSE i \in 1..Len(t) : rank(i) = k]]

\* lines 55-61 and 63-69: label, keep the relevant columns, sort
balanced(t) == sort_values(relevant(with_label(t)))

-----------------------------------------------------------------------------
(* SpecSplit: one call of split_duplicates on the tables clean_data returned *)

CleanQuestionRows ==
    Range(add_text(<< [Id |-> 1, AnswerId |-> 1, Text0 |-> Long],
                      [Id |-> 2, AnswerId |-> 2, Text0 |-> Short],
                      [Id |-> 3, AnswerId |-> 2, Text0 |-> Long] >>))
CleanDupeRows ==
    Range(add_text(<< [Id |-> 7, AnswerId |-> 1, Text0 |-> Long],
                      [Id |-> 6, AnswerId |-> 2, Text0 |-> Long],
                      [Id |-> 5, AnswerId |-> 1, Text0 |-> Short],
                      [Id |-> 4, AnswerId |-> 2, Text0 |-> Short] >>))

\* what clean_data returns: no Id twice, and the same AnswerId values in both
CleanTables(rows, n) ==
    UNION {Arrangements(rows, k) : k \in 0..n}

InitSplit ==
    /\ stage = "split"
    /\ questions \in CleanTables(CleanQuestionRows, Cardinality(CleanQuestionRows))
    /\ dupes \in CleanTables(CleanDupeRows, MaxDupes)
    /\ UniqueIds(questions) /\ UniqueIds(dupes)
    /\ AnswerIds(questions) = AnswerIds(dupes)
    /\ match \in 1..MaxMatch
    /\ show_output \in BOOLEAN
    /\ min_text = 0 /\ min_dupes = 1
    /\ remote = [questions |-> <<>>, dupes |-> <<>>, answers |-> <<>>]
    /\ answers = <<>>
    /\ dupes_test = <<>> /\ dupes_train = <<>>
    /\ balanced_pairs_train = <<>> /\ balanced_pairs_test = <<>>
    /\ fs = Unused /\ pc = Unused /\ loaded = Unused /\ ret = Unused /\ fetches = Unused

SplitDuplicates ==
    /\ stage = "split"
    /\ \E t \in round_sample_strat(dupes) :
         /\ dupes_test' = t
         /\ dupes_train' = dupes_train_of(dupes, t)
         /\ IF classes_asserted(t, dupes)
            THEN /\ \E tr \in random_merge(dupes_train', questions, match) :
                       balanced_pairs_train' = balanced(tr)
                 /\ \E te \in random_merge(t, questions, Len(questions)) :
                       balanced_pairs_test' = balanced(te)
                 /\ stage' = "save"
            ELSE /\ stage' = "failed"
                 /\ UNCHANGED <<balanced_pairs_train, balanced_pairs_test>>
    /\ UNCHANGED <<remote, show_output, min_text, min_dupes, match, questions,
                   answers, dupes>>
    /\ UNCHANGED fsVars

NextSplit == SplitDuplicates

SpecSplit == InitSplit /\ [][NextSplit]_vars

-----------------------------------------------------------------------------
(* Claims on split_duplicates, under SpecSplit *)

SplitDone == stage \in {"save", "failed"}

\* C5: the train dupes and the test dupes share no Id, and their Ids together
\* are the Ids of the cleaned dupes.
Thm_C5 ==
    SplitDone =>
        /\ Ids(dupes_train) \cap Ids(dupes_test) = {}
        /\ Ids(dupes_train) \cup Ids(dupes_test) = Ids(dupes)

\* the sampler returned some of the dupes and left some
Wit_C5 == stage = "save" /\ Len(dupes_test) > 0 /\ Len(dupes_train) > 0

\* C6: past the assertion the classes of dupes_test are the classes of the
\* cleaned dupes; with a class absent the run has failed and has built no
\* pairing table.
Thm_C6 ==
    /\ stage = "save" => AnswerIds(dupes_test) = AnswerIds(dupes)
    /\ SplitDone /\ AnswerIds(dupes_test) # AnswerIds(dupes) =>
          /\ stage = "failed"
          /\ balanced_pairs_train = <<>> /\ balanced_pairs_test = <<>>

\* the sampler left a class out of a table with two classes, and the run failed
Wit_C6 ==
    /\ stage = "failed"
    /\ Cardinality(AnswerIds(dupes)) = 2
    /\ Cardinality(AnswerIds(dupes_test)) = 1

Sorted(t) ==
    \A i, j \in 1..Len(t) :
        i < j => /\ t[i].Id_x <= t[j].Id_x
                 /\ t[i].Id_x = t[j].Id_x => t[i].Label >= t[j].Label

Labelled(t) ==
    \A i \in 1..Len(t) :
        /\ t[i].Label \in {0, 1}
        /\ t[i].Label = 1 <=> t[i].AnswerId_x = t[i].AnswerId_y

\* C8: both pairing tables are in non-decreasing Id_x order, within one Id_x
\* the rows with Label 1 come before the rows with Label 0, and Label is 1
\* exactly when AnswerId_x equals AnswerId_y.
Thm_C8 ==
    stage = "save" =>
        /\ Sorted(balanced_pairs_train) /\ Labelled(balanced_pairs_train)
        /\ Sorted(balanced_pairs_test) /\ Labelled(balanced_pairs_test)

HasBothLabels(t, x) ==
    /\ \E i \in 1..Len(t) : t[i].Id_x = x /\ t[i].Label = 1
    /\ \E i \in 1..Len(t) : t[i].Id_x = x /\ t[i].Label = 0

\* the test pairing holds two dupes and the train pairing one, each with a
\* match and a mismatch
Wit_C8 ==
    /\ stage = "save"
    /\ Len(dupes_test) >= 2 /\ Len(dupes_train) >= 1
    /\ \A i \in 1..Len(dupes_test) : HasBothLabels(balanced_pairs_test, dupes_test[i].Id)
    /\ \A i \in 1..Len(dupes_train) : HasBothLabels(balanced_pairs_train, dupes_train[i].Id)


-----------------------------------------------------------------------------
(* create_stack_overflow_data and save_data against the output directory.   *)
(* The tables of an invocation are named by the invocation that computed    *)
(* them; a file is absent, opened and not yet completely written, or        *)
(* completely written.                                                      *)

Invocations == 1..MaxInvocations

Files == {"balanced_pairs_train.tsv", "balanced_pairs_test.tsv",
          "questions.tsv", "dupes_test.tsv"}

Absent == [exists |-> FALSE, run |-> 0, table |-> "", complete |-> FALSE]

\* the table of that name in the memory of invocation p
table_of(p, name) == [run |-> p, table |-> name, index |-> "kept", complete |-> TRUE]

NoTable == [run |-> 0, table |-> "", index |-> "", complete |-> FALSE]

\* os.path.isfile
isfile(fsys, f) == f \in DOMAIN fsys /\ fsys[f].exists

cached_at_wrong_path(fsys) == isfile(fsys, "dupes.tsv") /\ isfile(fsys, "questions.tsv")

\* os.path.isfile(dupes_test_path) and os.path.isfile(questions_path)
cached(fsys) == isfile(fsys, "dupes_test.tsv") /\ isfile(fsys, "questions.tsv")

\* pd.read_csv(path, sep="\t"): the rows written so far, with a fresh index
read_csv(file) ==
    [run |-> file.run, table |-> file.table, index |-> "range", complete |-> file.complete]

to_csv_open_exclusive(old, t) ==
    IF old.exists THEN old
    ELSE [exists |-> TRUE, run |-> t.run, table |-> t.table, complete |-> FALSE]

\* t.to_csv(path, sep="\t", header=True, index=False) opens the file for
\* writing, which creates or truncates it ...
to_csv_open(old, t) ==
    [exists |-> TRUE, run |-> t.run, table |-> t.table, complete |-> FALSE]

\* ... and writes the header and the rows, without the index
to_csv_write(old, t) ==
    [exists |-> TRUE, run |-> t.run, table |-> t.table, complete |-> TRUE]

save_order_cache_first ==
    << [file |-> "questions.tsv", table |-> "questions"],
       [file |-> "dupes_test.tsv", table |-> "dupes_test"],
       [file |-> "balanced_pairs_train.tsv", table |-> "balanced_pairs_train"],
       [file |-> "balanced_pairs_test.tsv", table |-> "balanced_pairs_test"] >>

\* the four to_csv calls of save_data, in their order
save_order ==
    << [file |-> "balanced_pairs_train.tsv", table |-> "balanced_pairs_train"],
       [file |-> "balanced_pairs_test.tsv", table |-> "balanced_pairs_test"],
       [file |-> "questions.tsv", table |-> "questions"],
       [file |-> "dupes_test.tsv", table |-> "dupes_test"] >>

At(name) == [at |-> name, k |-> 0]
Saving(op, k) == [at |-> op, k |-> k]

Init ==
    /\ fs = [f \in Files \cup {"data_folder"} |-> Absent]
    /\ pc = [p \in Invocations |-> At("idle")]
    /\ loaded = [p \in Invocations |-> NoTable]
    /\ ret = [p \in Invocations |-> <<NoTable, NoTable>>]
    /\ fetches = [p \in Invocations |-> 0]
    /\ stage = "none"
    /\ remote = Unused
    /\ show_output = FALSE /\ min_text = 0 /\ min_dupes = 0 /\ match = 0
    /\ questions = <<>> /\ answers = <<>> /\ dupes = <<>>
    /\ dupes_test = <<>> /\ dupes_train = <<>>
    /\ balanced_pairs_train = <<>> /\ balanced_pairs_test = <<>>

Goto(p, where) == pc' = [pc EXCEPT ![p] = where]

\* the call: the paths are built (lines 26-28)
Invoke(p) ==
    /\ pc[p] = At("idle")
    /\ Goto(p, At("isfile"))
    /\ UNCHANGED <<fs, loaded, ret, fetches>>
    /\ UNCHANGED dataVars

\* line 30
CheckCache(p) ==
    /\ pc[p] = At("isfile")
    /\ Goto(p, IF cached(fs) THEN At("read_questions") ELSE At("download"))
    /\ UNCHANGED <<fs, loaded, ret, fetches>>
    /\ UNCHANGED dataVars

\* line 31, pd.read_csv(questions_path, sep="\t")
ReadQuestions(p) ==
    /\ pc[p] = At("read_questions")
    /\ IF isfile(fs, "questions.tsv")
       THEN /\ loaded' = [loaded EXCEPT ![p] = read_csv(fs["questions.tsv"])]
            /\ Goto(p, At("read_dupes_test"))
       ELSE /\ Goto(p, At("failed_load"))
            /\ UNCHANGED loaded
    /\ UNCHANGED <<fs, ret, fetches>>
    /\ UNCHANGED dataVars

\* line 31, pd.read_csv(dupes_test_path, sep="\t"), and the return
ReadDupesTest(p) ==
    /\ pc[p] = At("read_dupes_test")
    /\ IF isfile(fs, "dupes_test.tsv")
       THEN /\ ret' = [ret EXCEPT ![p] = <<loaded[p], read_csv(fs["dupes_test.tsv"])>>]
            /\ Goto(p, At("returned"))
       ELSE /\ Goto(p, At("failed_load"))
            /\ UNCHANGED ret
    /\ UNCHANGED <<fs, loaded, fetches>>
    /\ UNCHANGED dataVars

\* line 33: the three downloads, which a network or parse error ends
DownloadDatasets(p) ==
    /\ pc[p] = At("download")
    /\ fetches' = [fetches EXCEPT ![p] = @ + 1]
    /\ \E ok \in BOOLEAN : Goto(p, IF ok THEN At("clean") ELSE At("failed_download"))
    /\ UNCHANGED <<fs, loaded, ret>>
    /\ UNCHANGED dataVars

\* line 36: clean_data, which an assertion or a diagnostic print ends
CleanData(p) ==
    /\ pc[p] = At("clean")
    /\ \E ok \in BOOLEAN : Goto(p, IF ok THEN At("split") ELSE At("failed_clean"))
    /\ UNCHANGED <<fs, loaded, ret, fetches>>
    /\ UNCHANGED dataVars

\* lines 39-40: split_duplicates, which the class assertion ends
SplitPairs(p) ==
    /\ pc[p] = At("split")
    /\ \E ok \in BOOLEAN : Goto(p, IF ok THEN At("makedirs") ELSE At("failed_split"))
    /\ UNCHANGED <<fs, loaded, ret, fetches>>
    /\ UNCHANGED dataVars

\* line 143: os.makedirs(outputs_path, exist_ok=True)
MakeDirs(p) ==
    /\ pc[p] = At("makedirs")
    /\ \E ok \in BOOLEAN :
         IF ok
         THEN /\ fs' = [fs EXCEPT !["data_folder"] =
                            [exists |-> TRUE, run |-> 0, table |-> "", complete |-> TRUE]]
              /\ Goto(p, Saving("open", 1))
         ELSE /\ Goto(p, At("failed_save"))
              /\ UNCHANGED fs
    /\ UNCHANGED <<loaded, ret, fetches>>
    /\ UNCHANGED dataVars

\* to_csv number k of save_data opens its file
OpenFile(p) ==
    /\ pc[p].at = "open"
    /\ LET k == pc[p].k
           f == save_order[k].file
       IN \E ok \in BOOLEAN :
            IF ok /\ fs["data_folder"].exists
            THEN /\ fs' = [fs EXCEPT ![f] = to_csv_open(@, table_of(p, save_order[k].table))]
                 /\ Goto(p, Saving("write", k))
            ELSE /\ Goto(p, At("failed_save"))
                 /\ UNCHANGED fs
    /\ UNCHANGED <<loaded, ret, fetches>>
    /\ UNCHANGED dataVars

\* to_csv number k of save_data writes its rows and closes the file
WriteFile(p) ==
    /\ pc[p].at = "write"
    /\ LET k == pc[p].k
           f == save_order[k].file
       IN \E ok \in BOOLEAN :
            IF ok
            THEN /\ fs' = [fs EXCEPT ![f] = to_csv_write(@, table_of(p, save_order[k].table))]
                 /\ Goto(p, IF k < Len(save_order) THEN Saving("open", k + 1) ELSE At("return"))
            ELSE /\ Goto(p, At("failed_save"))
                 /\ UNCHANGED fs
    /\ UNCHANGED <<loaded, ret, fetches>>
    /\ UNCHANGED dataVars

\* line 45: return questions, dupes_test
Return(p) ==
    /\ pc[p] = At("return")
    /\ ret' = [ret EXCEPT ![p] = <<table_of(p, "questions"), table_of(p, "dupes_test")>>]
    /\ Goto(p, At("returned"))
    /\ UNCHANGED <<fs, loaded, fetches>>
    /\ UNCHANGED dataVars

Running(p) ==
    pc[p].at \notin {"idle", "returned", "failed_load", "failed_download",
                     "failed_clean", "failed_split", "failed_save"}

\* invocations interleaved
Next ==
    \E p \in Invocations :
       \/ Invoke(p)
       \/ CheckCache(p)
       \/ ReadQuestions(p)
       \/ ReadDupesTest(p)
       \/ DownloadDatasets(p)
       \/ CleanData(p)
       \/ SplitPairs(p)
       \/ MakeDirs(p)
       \/ OpenFile(p)
       \/ WriteFile(p)
       \/ Return(p)

Spec == Init /\ [][Next]_vars

\* no other invocation is under way
Alone(p) == \A q \in Invocations \ {p} : ~Running(q)

\* invocations one after the other
NextSeq ==
    \E p \in Invocations :
       \/ Alone(p) /\ Invoke(p)
       \/ Alone(p) /\ CheckCache(p)
       \/ Alone(p) /\ ReadQuestions(p)
       \/ Alone(p) /\ ReadDupesTest(p)
       \/ Alone(p) /\ DownloadDatasets(p)
       \/ Alone(p) /\ CleanData(p)
       \/ Alone(p) /\ SplitPairs(p)
       \/ Alone(p) /\ MakeDirs(p)
       \/ Alone(p) /\ OpenFile(p)
       \/ Alone(p) /\ WriteFile(p)
       \/ Alone(p) /\ Return(p)

SpecSeq == Init /\ [][NextSeq]_vars

-----------------------------------------------------------------------------
(* Claims on the cache, under Spec and SpecSeq *)

BothCacheFiles == fs["questions.tsv"].exists /\ fs["dupes_test.tsv"].exists

Complete(f) == fs[f].exists /\ fs[f].complete

OwnTables(p) == <<table_of(p, "questions"), table_of(p, "dupes_test")>>

\* C1: every step of an invocation made while both questions.tsv and
\* dupes_test.tsv exist, from the call to the return, leaves the files and the
\* number of downloads as they are and stays on the loading path, and the
\* value returned is what read_csv gives for the two files.
Thm_C1 ==
    [][\A p \in Invocations :
          (/\ BothCacheFiles
           /\ pc[p].at \in {"idle", "isfile", "read_questions", "read_dupes_test"}
           /\ pc'[p] # pc[p])
          => /\ fs' = fs
             /\ fetches' = fetches
             /\ pc'[p].at \in {"isfile", "read_questions", "read_dupes_test", "returned"}
             /\ pc'[p].at = "returned" =>
                   ret'[p] = <<read_csv(fs["questions.tsv"]), read_csv(fs["dupes_test.tsv"])>>
      ]_vars

\* an invocation returned what a first invocation had written, without a
\* download, and the first had returned the tables it computed
Wit_C1 ==
    \E p, q \in Invocations :
        /\ p # q
        /\ pc[q].at = "returned" /\ ret[q] = OwnTables(q)
        /\ pc[p].at = "returned" /\ fetches[p] = 0
        /\ ret[p] = <<read_csv(to_csv_write(Absent, table_of(q, "questions"))),
                      read_csv(to_csv_write(Absent, table_of(q, "dupes_test")))>>
        /\ \A f \in Files : Complete(f) /\ fs[f].run = q

\* C9: nothing guards the files of save_data: an invocation that opens an
\* output file takes it over, empty, whatever state another invocation left
\* it in.
Thm_C9 ==
    [][\A p \in Invocations :
          (pc[p].at = "open" /\ pc'[p].at = "write")
          => LET f == save_order[pc[p].k].file IN
             /\ fs'[f].exists /\ ~fs'[f].complete
             /\ fs'[f].run = p
      ]_vars

\* two invocations both missed the cache, both downloaded, and both wrote the
\* four files and returned their own tables
Wit_C9 ==
    \E p, q \in Invocations :
        /\ p # q
        /\ pc[p].at = "returned" /\ ret[p] = OwnTables(p) /\ fetches[p] = 1
        /\ pc[q].at = "returned" /\ ret[q] = OwnTables(q) /\ fetches[q] = 1
        /\ \A f \in Files : Complete(f)

BeforePersist ==
    {"idle", "isfile", "download", "clean", "split", "makedirs",
     "failed_download", "failed_clean", "failed_split"}

=============================================================================
